---- MODULE Spec2Model ----
(***************************************************************************)
(* Cadence engine of the sales-outreach CRM: the business-day helpers and  *)
(* TodoPage.fetchData of src/src/app/todo/page.tsx, and the pages that     *)
(* write contacts and outreach logs: OpportunityDetailPage, ContactsPage   *)
(* and ContactHistoryModal; the handlers of TodoPage with their pending    *)
(* inserts and fetches; and the due count, the streak and the weekly chart *)
(* of the dashboards.                                                      *)
(*                                                                         *)
(* Dates.  A JavaScript Date that sits at local midnight is modelled by    *)
(* the number of its local calendar day; day numbers are chosen so that    *)
(* Date.getDay() is the day number modulo 7 (0 = Sunday ... 6 = Saturday). *)
(* A 'YYYY-MM-DD' string (the DATE column contact_date, the due_date       *)
(* field) is modelled by the day number of the calendar date it names.     *)
(* The two conversions between them go through UTC and so depend on the    *)
(* browser's time zone, which is part of the state (tz).                   *)
(***************************************************************************)
EXTENDS Integers, Sequences, FiniteSets

VARIABLES
    tz,                 \* browser time zone relative to UTC
    today,              \* local calendar day of the browser clock
    opportunities,      \* table opportunities (joined with health_systems)
    contacts,           \* table contacts
    outreach_logs,      \* table outreach_logs
    loading,            \* TodoPage state
    isBusinessDayToday, \* TodoPage state
    nextBusinessDay,    \* TodoPage state (<<>> is null)
    allDueContacts,     \* fetchData's local list, as of its last run
    todayContacts,      \* TodoPage state
    nextDayContacts,    \* TodoPage state
    calc,               \* arguments and results of the helper calls
    nextId,             \* ids the database has not handed out yet
    route,              \* the page the browser shows
    detail,             \* OpportunityDetailPage state: opportunity, contacts
    form,               \* OpportunityDetailPage state: the contact form
    history,            \* ContactHistoryModal: contactId and logs
    contactsPage,       \* ContactsPage state: contacts and selectedIds
    selections,         \* TodoPage state
    submittingId,       \* TodoPage state (<<>> is null)
    submits,            \* handleSubmit calls waiting for their insert
    fetches,            \* fetchData calls waiting for their queries
    alertMessage,       \* the last window.alert of TodoPage (<<>> is none)
    stats               \* DashboardPage state (<<>> is null)

vars == <<tz, today, opportunities, contacts, outreach_logs, loading,
          isBusinessDayToday, nextBusinessDay, allDueContacts,
          todayContacts, nextDayContacts, calc,
          nextId, route, detail, form, history, contactsPage,
          selections, submittingId, submits, fetches, alertMessage, stats>>

dbVars == <<opportunities, contacts, outreach_logs>>
pageVars == <<loading, isBusinessDayToday, nextBusinessDay, allDueContacts,
              todayContacts, nextDayContacts>>
crmVars == <<nextId, route, detail, form, history, contactsPage>>
todoVars == <<selections, submittingId, submits, fetches, alertMessage>>

----------------------------------------------------------------------------
(* Bounds *)

NumContacts == 2
NumOpps == 1
MaxCadence == 2
MaxLogs == 1
LookBack == 2
MaxCalcDays == 9
CalcSpan == 13
WideContacts == 3
MaxCrmContacts == 1
MaxCrmLogs == 1
DashBack == 3
MaxInFlight == 2
MaxTodoLogs == 2

ContactIds == 1..NumContacts
OppIds == 1..NumOpps
Cadences == 1..MaxCadence
Todays == 14..20
TimeZones == {"west", "utc", "east"}
Statuses == {"prospect", "active", "won"}
CalcDates == 7..(7 + CalcSpan)
WideIds == 1..WideContacts
\* days between the last log of a contact and the one before it
WideOlder == 7
\* <<cadence_days, age of the last log in days>>, age 0 for no log
WideProfiles == {<<1, 0>>, <<1, 6>>, <<1, 8>>, <<1, 12>>, <<5, 6>>, <<10, 6>>}

\* names of the health systems of the opportunities, in the order in which
\* String.localeCompare ranks them
LocaleOrder == <<"apex", "Banner", "Mercy">>

----------------------------------------------------------------------------
(* Business-day helpers *)

getDay(date) == date % 7

\* variant: only Sunday is excluded
isBusinessDay_SundayOnly(date) ==
    LET day == getDay(date)
    IN  day # 0

isBusinessDay(date) ==
    LET day == getDay(date)
    IN  day # 0 /\ day # 6

\* variant: the day after, without the loop that skips the weekend
getNextBusinessDay_NoSkip(fromDate) == fromDate + 1

getNextBusinessDay(fromDate) ==
    LET RECURSIVE loop(_)
        loop(next) == IF ~isBusinessDay(next) THEN loop(next + 1) ELSE next
    IN  loop(fromDate + 1)

\* variant: the day before, without the loop that skips the weekend
getPreviousBusinessDay_NoSkip(fromDate) == fromDate - 1

getPreviousBusinessDay(fromDate) ==
    LET RECURSIVE loop(_)
        loop(prev) == IF ~isBusinessDay(prev) THEN loop(prev - 1) ELSE prev
    IN  loop(fromDate - 1)

\* variant: the walk starts on startDate itself
countBusinessDays_InclStart(startDate, endDate) ==
    LET RECURSIVE loop(_, _)
        loop(current, count) ==
            IF current <= endDate
            THEN loop(current + 1,
                      IF isBusinessDay(current) THEN count + 1 ELSE count)
            ELSE count
    IN  loop(startDate, 0)

\* variant: the walk stops before endDate
countBusinessDays_ExclEnd(startDate, endDate) ==
    LET RECURSIVE loop(_, _)
        loop(current, count) ==
            IF current < endDate
            THEN loop(current + 1,
                      IF isBusinessDay(current) THEN count + 1 ELSE count)
            ELSE count
    IN  loop(startDate + 1, 0)

countBusinessDays(startDate, endDate) ==
    LET RECURSIVE loop(_, _)
        loop(current, count) ==
            IF current <= endDate
            THEN loop(current + 1,
                      IF isBusinessDay(current) THEN count + 1 ELSE count)
            ELSE count
    IN  loop(startDate + 1, 0)

\* variant: every calendar day counts as a day added
addBusinessDays_Calendar(startDate, businessDays) == startDate + businessDays

\* variant: a weekend start is first moved to the next business day
addBusinessDays_SnapFirst(startDate, businessDays) ==
    LET RECURSIVE loop(_, _)
        loop(result, daysAdded) ==
            IF daysAdded < businessDays
            THEN loop(result + 1,
                      IF isBusinessDay(result + 1) THEN daysAdded + 1
                                                   ELSE daysAdded)
            ELSE result
    IN  loop(IF isBusinessDay(startDate) THEN startDate
             ELSE getNextBusinessDay(startDate), 0)

addBusinessDays(startDate, businessDays) ==
    LET RECURSIVE loop(_, _)
        loop(result, daysAdded) ==
            IF daysAdded < businessDays
            THEN loop(result + 1,
                      IF isBusinessDay(result + 1) THEN daysAdded + 1
                                                   ELSE daysAdded)
            ELSE result
    IN  loop(startDate, 0)

\* date.toISOString().split('T')[0] of a Date at local midnight: the UTC
\* calendar date of that instant, which east of UTC is the day before
formatDate(date) == IF tz = "east" THEN date - 1 ELSE date

\* new Date('YYYY-MM-DD') is midnight UTC of that date; setHours(0, 0, 0, 0)
\* moves it to the local midnight before it, which west of UTC is the
\* previous calendar day
localMidnight(dateStr) == IF tz = "west" THEN dateStr - 1 ELSE dateStr

\* a.localeCompare(b) on the health-system names: negative, zero or positive
localeCompare(a, b) ==
    LET rank(s) == CHOOSE i \in DOMAIN LocaleOrder : LocaleOrder[i] = s
    IN  rank(a) - rank(b)

----------------------------------------------------------------------------
(* Array helpers *)

\* the elements of a set of integers as an ascending sequence
RECURSIVE SeqOfSet(_)
SeqOfSet(S) ==
    IF S = {} THEN <<>>
    ELSE LET m == CHOOSE x \in S : \A y \in S : x <= y
         IN  <<m>> \o SeqOfSet(S \ {m})

----------------------------------------------------------------------------
(* TodoPage.fetchData *)

\* variant: opportunities of every status
prospectOppIds_AnyStatus == {o \in DOMAIN opportunities :
                                opportunities[o].status \in Statuses}

\* opportunities whose status is 'prospect'
prospectOppIds == {o \in DOMAIN opportunities :
                      opportunities[o].status = "prospect"}

\* rows of contacts with opportunity_id in prospectOppIds
contactsData == SeqOfSet({c \in DOMAIN contacts :
                            contacts[c].opportunity_id \in prospectOppIds})

\* the rows of outreach_logs by contact_date descending; rows of one date
\* come in the order the database happens to return them
RECURSIVE logsData(_)
logsData(logs) ==
    IF logs = {} THEN <<>>
    ELSE LET first == CHOOSE x \in logs :
                          \A y \in logs : x.contact_date >= y.contact_date
         IN  <<first>> \o logsData(logs \ {first})

\* variant: every row overwrites the entry of its contact
lastOutreachMap_Overwrite(rows) ==
    LET RECURSIVE forEach(_, _)
        forEach(i, map) ==
            IF i > Len(rows) THEN map
            ELSE LET log == rows[i]
                 IN  forEach(i + 1,
                             [k \in DOMAIN map \cup {log.contact_id} |->
                                IF k = log.contact_id THEN log.contact_date
                                ELSE map[k]])
    IN  forEach(1, <<>>)

\* the object lastOutreach: the forEach over the rows keeps the first row
\* of every contact
lastOutreachMap(rows) ==
    LET RECURSIVE forEach(_, _)
        forEach(i, map) ==
            IF i > Len(rows) THEN map
            ELSE LET log == rows[i]
                 IN  forEach(i + 1,
                             IF log.contact_id \in DOMAIN map THEN map
                             ELSE [k \in DOMAIN map \cup {log.contact_id} |->
                                     IF k = log.contact_id THEN log.contact_date
                                     ELSE map[k]])
    IN  forEach(1, <<>>)

\* lastOutreach[contact.id]: <<date>>, or <<>> for undefined
lastOutreach(contactId) ==
    LET map == lastOutreachMap(logsData(outreach_logs))
    IN  IF contactId \in DOMAIN map THEN <<map[contactId]>> ELSE <<>>

\* variant: a contact without logs is due on the next business day
dueDateOf_NewIsNextDay(contactId, last) ==
    IF last # <<>>
    THEN LET lastContactDate == localMidnight(last[1])
             cadence == IF contacts[contactId].cadence_days = 0 THEN 10
                        ELSE contacts[contactId].cadence_days
         IN  addBusinessDays(lastContactDate, cadence)
    ELSE getNextBusinessDay(today)

\* the local variable dueDate of the forEach callback
dueDateOf(contactId, last) ==
    IF last # <<>>
    THEN LET lastContactDate == localMidnight(last[1])
             cadence == IF contacts[contactId].cadence_days = 0 THEN 10
                        ELSE contacts[contactId].cadence_days
         IN  addBusinessDays(lastContactDate, cadence)
    ELSE IF isBusinessDay(today) THEN today ELSE getNextBusinessDay(today)

\* variant: a contact due today counts as a rollover
dueInfo_RolloverFromToday(contactId) ==
    LET last == lastOutreach(contactId)
        dueDate == dueDateOf(contactId, last)
        opp == opportunities[contacts[contactId].opportunity_id]
    IN  [id |-> contactId,
         opportunity_id |-> contacts[contactId].opportunity_id,
         cadence_days |-> contacts[contactId].cadence_days,
         health_system |-> opp.health_system,
         last_contact_date |-> last,
         dueDate |-> dueDate,
         days_overdue |-> countBusinessDays(dueDate, today),
         due_date |-> formatDate(dueDate),
         is_rollover |-> (dueDate <= today /\ isBusinessDay(today))]

\* variant: the overdue days are calendar days
dueInfo_CalendarOverdue(contactId) ==
    LET last == lastOutreach(contactId)
        dueDate == dueDateOf(contactId, last)
        opp == opportunities[contacts[contactId].opportunity_id]
    IN  [id |-> contactId,
         opportunity_id |-> contacts[contactId].opportunity_id,
         cadence_days |-> contacts[contactId].cadence_days,
         health_system |-> opp.health_system,
         last_contact_date |-> last,
         dueDate |-> dueDate,
         days_overdue |-> IF today > dueDate THEN today - dueDate ELSE 0,
         due_date |-> formatDate(dueDate),
         is_rollover |-> (dueDate < today /\ isBusinessDay(today))]

\* the entry pushed to allDueContacts for one contact; dueDate keeps the
\* local Date next to its formatted string due_date
dueInfo(contactId) ==
    LET last == lastOutreach(contactId)
        dueDate == dueDateOf(contactId, last)
        opp == opportunities[contacts[contactId].opportunity_id]
    IN  [id |-> contactId,
         opportunity_id |-> contacts[contactId].opportunity_id,
         cadence_days |-> contacts[contactId].cadence_days,
         health_system |-> opp.health_system,
         last_contact_date |-> last,
         dueDate |-> dueDate,
         days_overdue |-> countBusinessDays(dueDate, today),
         due_date |-> formatDate(dueDate),
         is_rollover |-> (dueDate < today /\ isBusinessDay(today))]

\* filter of todaysDue: the due_date string is parsed back to a Date
isDueToday(c) == localMidnight(c.due_date) <= today

\* filter of nextDaysDue
isDueNextDay(c) ==
    formatDate(localMidnight(c.due_date)) = formatDate(getNextBusinessDay(today))

\* variant: fewest overdue days first
compareToday_AscendingOverdue(a, b) ==
    IF a.is_rollover # b.is_rollover THEN (IF a.is_rollover THEN -1 ELSE 1)
    ELSE IF a.days_overdue # b.days_overdue THEN a.days_overdue - b.days_overdue
    ELSE localeCompare(a.health_system, b.health_system)

\* comparator of todaysDue
compareToday(a, b) ==
    IF a.is_rollover # b.is_rollover THEN (IF a.is_rollover THEN -1 ELSE 1)
    ELSE IF a.days_overdue # b.days_overdue THEN b.days_overdue - a.days_overdue
    ELSE localeCompare(a.health_system, b.health_system)

\* comparator of nextDaysDue
compareNextDay(a, b) == localeCompare(a.health_system, b.health_system)

\* Array.prototype.sort with the comparator of todaysDue (by = "today") or of
\* nextDaysDue: stable; an element goes before the first element it compares
\* less than
sortContacts(s, by) ==
    LET compare(a, b) == IF by = "today" THEN compareToday(a, b)
                         ELSE compareNextDay(a, b)
        sortPrefix[n \in 0..Len(s)] ==
            IF n = 0 THEN <<>>
            ELSE LET sorted == sortPrefix[n - 1]
                     x == s[n]
                     after == {i \in 1..Len(sorted) : compare(x, sorted[i]) < 0}
                     k == IF after = {} THEN Len(sorted) + 1
                          ELSE CHOOSE i \in after : \A j \in after : i <= j
                 IN  SubSeq(sorted, 1, k - 1) \o <<x>>
                         \o SubSeq(sorted, k, Len(sorted))
    IN  sortPrefix[Len(s)]

\* allDueContacts as fetchData builds it from the tables; nothing is built
\* on the early return taken when there is no prospect opportunity
fetchedAll ==
    IF prospectOppIds = {} THEN <<>>
    ELSE [i \in 1..Len(contactsData) |-> dueInfo(contactsData[i])]

\* todaysDue
fetchedToday == sortContacts(SelectSeq(fetchedAll, isDueToday), "today")

\* nextDaysDue
fetchedNextDay == sortContacts(SelectSeq(fetchedAll, isDueNextDay), "nextDay")

FetchData ==
    /\ route = "/todo"
    /\ isBusinessDayToday' = isBusinessDay(today)
    /\ nextBusinessDay' = <<getNextBusinessDay(today)>>
    /\ allDueContacts' = fetchedAll
    /\ todayContacts' = fetchedToday
    /\ nextDayContacts' = fetchedNextDay
    /\ loading' = FALSE
    /\ UNCHANGED <<todoVars, stats, tz, today, dbVars, calc, crmVars>>

----------------------------------------------------------------------------
(* Calls of the helpers on arbitrary arguments *)

CalcIdle == [pc |-> "off"]

CalcAdd ==
    /\ calc.pc = "args"
    /\ calc' = [calc EXCEPT !.pc = "added",
                            !.added = addBusinessDays(calc.start, calc.n)]
    /\ UNCHANGED <<todoVars, stats, tz, today, dbVars, pageVars, crmVars>>

CalcCount ==
    /\ calc.pc = "args"
    /\ calc' = [calc EXCEPT !.pc = "counted",
                            !.counted = countBusinessDays(calc.start, calc.end)]
    /\ UNCHANGED <<todoVars, stats, tz, today, dbVars, pageVars, crmVars>>

CalcCountAdded ==
    /\ calc.pc = "added"
    /\ calc' = [calc EXCEPT !.pc = "roundtrip",
                            !.counted = countBusinessDays(calc.start, calc.added)]
    /\ UNCHANGED <<todoVars, stats, tz, today, dbVars, pageVars, crmVars>>

CalcWeek ==
    /\ calc.pc = "args"
    /\ calc' = [calc EXCEPT !.pc = "week",
                            !.week = [i \in 0..6 |-> isBusinessDay(calc.start + i)]]
    /\ UNCHANGED <<todoVars, stats, tz, today, dbVars, pageVars, crmVars>>

CalcNeighbours ==
    /\ calc.pc = "args"
    /\ calc' = [calc EXCEPT !.pc = "neighbours",
                            !.next = getNextBusinessDay(calc.start),
                            !.prev = getPreviousBusinessDay(calc.start)]
    /\ UNCHANGED <<todoVars, stats, tz, today, dbVars, pageVars, crmVars>>

----------------------------------------------------------------------------
(* The tables as the CRM pages write them.  Here a log row carries its id   *)
(* and contact_method next to contact_id and contact_date.                  *)

\* DELETE FROM contacts WHERE id IN ids
contactsWithout(ids) == [c \in DOMAIN contacts \ ids |-> contacts[c]]

\* variant: the logs of a deleted contact stay behind
logsAfterContactDelete_NoCascade(ids) == outreach_logs

\* variant: ON DELETE SET NULL, with 0 for the null contact_id
logsAfterContactDelete_SetNull(ids) ==
    {IF l.contact_id \in ids THEN [l EXCEPT !.contact_id = 0] ELSE l :
        l \in outreach_logs}

\* outreach_logs.contact_id REFERENCES contacts(id) ON DELETE CASCADE
logsAfterContactDelete(ids) == {l \in outreach_logs : l.contact_id \notin ids}

\* the methods ticked in a contact's selection, in the order they are pushed
selectionMethods(emailed, called) ==
    (IF emailed THEN <<"email">> ELSE <<>>) \o (IF called THEN <<"call">> ELSE <<>>)

\* the rows an insert of one row per method adds
newLogs(contactId, methods, date) ==
    {[id |-> nextId.logs + i - 1, contact_id |-> contactId,
      contact_date |-> date, contact_method |-> methods[i]] :
        i \in 1..Len(methods)}

\* supabase.from('outreach_logs').insert(logs)
insertLogs(contactId, methods, date) ==
    outreach_logs \cup newLogs(contactId, methods, date)

\* the dates the database may fill in as contact_date, which the pages do
\* not send: its current date is the browser's local date or a neighbour
insertDates ==
    {today} \cup (IF tz = "west" THEN {today + 1} ELSE {})
            \cup (IF tz = "east" THEN {today - 1} ELSE {})

\* a set of logs ordered by contact_date descending
RECURSIVE LogsNewestFirst(_)
LogsNewestFirst(S) ==
    IF S = {} THEN <<>>
    ELSE LET m == CHOOSE x \in S : \A y \in S :
                     \/ x.contact_date > y.contact_date
                     \/ x.contact_date = y.contact_date /\ x.id <= y.id
         IN  <<m>> \o LogsNewestFirst(S \ {m})

\* the ids of the rows of a page's list
listedIds(rows) == {rows[i].id : i \in DOMAIN rows}

----------------------------------------------------------------------------
(* OpportunityDetailPage *)

\* the opportunity of the route
opportunityId == 1

DetailRoute == "/opportunities/1"

\* showForm, editingId and formData as useState sets them
emptyContactForm == [showForm |-> FALSE, editingId |-> <<>>, cadence_days |-> 10]

\* what may be typed into the cadence field; <<>> is the emptied field
TypedCadences == {<<>>, <<0>>, <<-3>>, <<7>>}

\* parseInt(e.target.value) || 10: NaN and 0 are falsy
parsedCadence(typed) ==
    IF typed = <<>> THEN 10
    ELSE IF typed[1] = 0 THEN 10
    ELSE typed[1]

\* variant: the cadence field has no min attribute
cadenceInputValid_NoMin(value) == value <= 90

\* the browser submits the form only if min <= value <= max
cadenceInputValid(value) == 1 <= value /\ value <= 90

\* fetchData: the opportunity and its contacts by name, each with the date
\* of its latest log
detailFetched ==
    LET ids == SeqOfSet({c \in DOMAIN contacts :
                           contacts[c].opportunity_id = opportunityId})
    IN  [opportunity |-> <<opportunities[opportunityId].status>>,
         contacts |-> [i \in 1..Len(ids) |->
                          [id |-> ids[i],
                           cadence_days |-> contacts[ids[i]].cadence_days,
                           last_contact_date |-> lastOutreach(ids[i])]]]

\* the page is rendered, and the history modal does not cover it
detailReady ==
    /\ route = DetailRoute
    /\ detail.opportunity # <<>>
    /\ history.contactId = <<>>

DetailFetchData ==
    /\ route = DetailRoute
    /\ detail' = detailFetched
    /\ UNCHANGED <<todoVars, stats, tz, today, dbVars, pageVars, calc, nextId, route, form, history,
                   contactsPage>>

\* the "+ Add Contact" button
DetailShowForm ==
    /\ detailReady
    /\ ~form.showForm
    /\ form' = [form EXCEPT !.showForm = TRUE]
    /\ UNCHANGED <<todoVars, stats, tz, today, dbVars, pageVars, calc, nextId, route, detail, history,
                   contactsPage>>

\* onChange of the cadence field
DetailChangeCadence ==
    /\ detailReady
    /\ form.showForm
    /\ \E typed \in TypedCadences :
          form' = [form EXCEPT !.cadence_days = parsedCadence(typed)]
    /\ UNCHANGED <<todoVars, stats, tz, today, dbVars, pageVars, calc, nextId, route, detail, history,
                   contactsPage>>

DetailHandleEdit ==
    /\ detailReady
    /\ \E i \in DOMAIN detail.contacts :
          LET contact == detail.contacts[i]
          IN  form' = [showForm |-> TRUE,
                       editingId |-> <<contact.id>>,
                       cadence_days |-> IF contact.cadence_days = 0 THEN 10
                                        ELSE contact.cadence_days]
    /\ UNCHANGED <<todoVars, stats, tz, today, dbVars, pageVars, calc, nextId, route, detail, history,
                   contactsPage>>

DetailHandleCancel ==
    /\ detailReady
    /\ form.showForm
    /\ form' = emptyContactForm
    /\ UNCHANGED <<todoVars, stats, tz, today, dbVars, pageVars, calc, nextId, route, detail, history,
                   contactsPage>>

\* handleSubmit of the contact form.  An update or insert that fails is
\* repeated without cadence_days, which leaves the column alone or at its
\* default; setShowForm(false), setEditingId(null), setFormData(empty) and
\* fetchData() follow in every case.
DetailHandleSubmit ==
    /\ detailReady
    /\ form.showForm
    /\ cadenceInputValid(form.cadence_days)
    /\ IF form.editingId # <<>>
       THEN /\ \E withCadence \in BOOLEAN :
                 contacts' =
                    IF withCadence /\ form.editingId[1] \in DOMAIN contacts
                    THEN [contacts EXCEPT ![form.editingId[1]].cadence_days =
                                               form.cadence_days]
                    ELSE contacts
            /\ nextId' = nextId
       ELSE \E outcome \in {"withCadence", "withoutCadence", "failed"} :
               IF outcome = "failed"
               THEN UNCHANGED <<contacts, nextId>>
               ELSE /\ nextId.contacts <= MaxCrmContacts
                    /\ contacts' =
                          [c \in DOMAIN contacts \cup {nextId.contacts} |->
                              IF c \in DOMAIN contacts THEN contacts[c]
                              ELSE [opportunity_id |-> opportunityId,
                                    cadence_days |->
                                       IF outcome = "withCadence"
                                       THEN form.cadence_days ELSE 10]]
                    /\ nextId' = [nextId EXCEPT !.contacts = @ + 1]
    /\ UNCHANGED <<opportunities, outreach_logs>>
    /\ form' = emptyContactForm
    /\ detail' = detailFetched'
    /\ UNCHANGED <<todoVars, stats, tz, today, pageVars, calc, route, history, contactsPage>>

\* handleDelete of the contact list, once confirmed
DetailHandleDelete ==
    /\ detailReady
    /\ \E id \in listedIds(detail.contacts) :
          \/ /\ contacts' = contactsWithout({id})
             /\ outreach_logs' = logsAfterContactDelete({id})
             /\ opportunities' = opportunities
             /\ detail' = detailFetched'
          \/ UNCHANGED <<dbVars, detail>>
    /\ UNCHANGED <<todoVars, stats, tz, today, pageVars, calc, nextId, route, form, history,
                   contactsPage>>

DetailHandleStatusChange ==
    /\ detailReady
    /\ \E newStatus \in Statuses :
          \/ /\ opportunities' =
                   [opportunities EXCEPT ![opportunityId].status = newStatus]
             /\ detail' = [detail EXCEPT !.opportunity = <<newStatus>>]
          \/ UNCHANGED <<opportunities, detail>>
    /\ UNCHANGED <<todoVars, stats, tz, today, contacts, outreach_logs, pageVars, calc, nextId,
                   route, form, history, contactsPage>>

\* handleLogSubmit with at least one of Emailed and Called ticked.  The
\* insert fails when the contact of the row is gone.
DetailHandleLogSubmit ==
    /\ detailReady
    /\ \E contactId \in listedIds(detail.contacts), emailed, called \in BOOLEAN :
          LET methods == selectionMethods(emailed, called)
          IN  /\ emailed \/ called
              /\ nextId.logs + Len(methods) - 1 <= MaxCrmLogs
              /\ \/ /\ contactId \in DOMAIN contacts
                    /\ \E date \in insertDates :
                          outreach_logs' = insertLogs(contactId, methods, date)
                    /\ nextId' = [nextId EXCEPT !.logs = @ + Len(methods)]
                    /\ UNCHANGED <<opportunities, contacts>>
                    /\ detail' = detailFetched'
                 \/ UNCHANGED <<dbVars, nextId, detail>>
    /\ UNCHANGED <<todoVars, stats, tz, today, pageVars, calc, route, form, history, contactsPage>>

DetailOpenHistory ==
    /\ detailReady
    /\ \E contactId \in listedIds(detail.contacts) :
          history' = [contactId |-> <<contactId>>,
                      logs |-> LogsNewestFirst({l \in outreach_logs :
                                                  l.contact_id = contactId})]
    /\ UNCHANGED <<todoVars, stats, tz, today, dbVars, pageVars, calc, nextId, route, detail, form,
                   contactsPage>>

closeHistory ==
    /\ history.contactId # <<>>
    /\ history' = [contactId |-> <<>>, logs |-> <<>>]
    /\ UNCHANGED <<todoVars, stats, tz, today, dbVars, pageVars, calc, nextId, route, detail, form,
                   contactsPage>>

----------------------------------------------------------------------------
(* ContactHistoryModal *)

\* handleDelete of one entry, once confirmed; fetchLogs() and onDelete(),
\* the fetchData() of the page under the modal, follow
ModalHandleDelete ==
    /\ history.contactId # <<>>
    /\ UNCHANGED <<todoVars, stats, tz, today, pageVars, calc, nextId, route, form, contactsPage>>
    /\ \E logId \in listedIds(history.logs) :
          \/ /\ outreach_logs' = {l \in outreach_logs : l.id # logId}
             /\ UNCHANGED <<opportunities, contacts>>
             /\ history' = [history EXCEPT
                               !.logs = LogsNewestFirst(
                                          {l \in outreach_logs' :
                                             <<l.contact_id>> = history.contactId})]
             /\ detail' = detailFetched'
          \/ UNCHANGED <<dbVars, history, detail>>

----------------------------------------------------------------------------
(* ContactsPage *)

\* fetchData: all contacts by name
ContactsFetchData ==
    /\ route = "/contacts"
    /\ contactsPage' = [contactsPage EXCEPT !.contacts = SeqOfSet(DOMAIN contacts)]
    /\ UNCHANGED <<todoVars, stats, tz, today, dbVars, pageVars, calc, nextId, route, detail, form,
                   history>>

toggleSelect ==
    /\ route = "/contacts"
    /\ \E i \in DOMAIN contactsPage.contacts :
          LET id == contactsPage.contacts[i]
          IN  contactsPage' =
                 [contactsPage EXCEPT !.selectedIds =
                     IF id \in @ THEN @ \ {id} ELSE @ \cup {id}]
    /\ UNCHANGED <<todoVars, stats, tz, today, dbVars, pageVars, calc, nextId, route, detail, form,
                   history>>

\* handleDelete of one row, once confirmed
ContactsHandleDelete ==
    /\ route = "/contacts"
    /\ \E i \in DOMAIN contactsPage.contacts :
          LET id == contactsPage.contacts[i]
          IN  \/ /\ contacts' = contactsWithout({id})
                 /\ outreach_logs' = logsAfterContactDelete({id})
                 /\ opportunities' = opportunities
                 /\ contactsPage' =
                       [contacts |-> SeqOfSet(DOMAIN contacts'),
                        selectedIds |-> contactsPage.selectedIds \ {id}]
              \/ UNCHANGED <<dbVars, contactsPage>>
    /\ UNCHANGED <<todoVars, stats, tz, today, pageVars, calc, nextId, route, detail, form,
                   history>>

\* handleBulkDelete of the selected rows, once confirmed
ContactsHandleBulkDelete ==
    /\ route = "/contacts"
    /\ contactsPage.selectedIds # {}
    /\ \/ /\ contacts' = contactsWithout(contactsPage.selectedIds)
          /\ outreach_logs' = logsAfterContactDelete(contactsPage.selectedIds)
          /\ opportunities' = opportunities
          /\ contactsPage' = [contacts |-> SeqOfSet(DOMAIN contacts'),
                              selectedIds |-> {}]
       \/ UNCHANGED <<dbVars, contactsPage>>
    /\ UNCHANGED <<todoVars, stats, tz, today, pageVars, calc, nextId, route, detail, form,
                   history>>

----------------------------------------------------------------------------
(* Navigation *)

\* the pages that write contacts
CrmRoutes == {DetailRoute, "/contacts"}

\* following a link from one of these pages to the other unmounts the page
\* shown and mounts the other one with its initial state
navigate ==
    /\ route \in CrmRoutes
    /\ \E href \in CrmRoutes \ {route} : route' = href
    /\ detail' = [opportunity |-> <<>>, contacts |-> <<>>]
    /\ form' = emptyContactForm
    /\ history' = [contactId |-> <<>>, logs |-> <<>>]
    /\ contactsPage' = [contacts |-> <<>>, selectedIds |-> {}]
    /\ UNCHANGED <<todoVars, stats, tz, today, dbVars, pageVars, calc, nextId>>

----------------------------------------------------------------------------
(* TodoPage handlers.  A handleSubmit call waits in submits for its insert  *)
(* and a fetchData call waits in fetches, first for its queries to run and  *)
(* then for its response; the insert runs and answers in one step.  The     *)
(* field after of a fetchData call is <<contactId, contact_date>> when a    *)
(* handleSubmit awaits it and <<>> otherwise.                               *)

NoteTexts == {"left voicemail"}

RemoveAt(s, i) == SubSeq(s, 1, i - 1) \o SubSeq(s, i + 1, Len(s))

\* selections[contactId] || { emailed: false, called: false, notes: '' }
selectionOf(contactId) ==
    IF contactId \in DOMAIN selections THEN selections[contactId]
    ELSE [emailed |-> FALSE, called |-> FALSE, notes |-> ""]

\* { ...prev, [contactId]: selection }
withSelection(contactId, selection) ==
    [k \in DOMAIN selections \cup {contactId} |->
        IF k = contactId THEN selection ELSE selections[k]]

\* delete newSelections[contactId]
withoutSelection(contactId) ==
    [k \in DOMAIN selections \ {contactId} |-> selections[k]]

\* the list of today's contacts is on the screen
todoListShown ==
    route = "/todo" /\ ~loading /\ isBusinessDayToday /\ todayContacts # <<>>

\* the attribute disabled of the button 'Mark Complete' of a contact
markCompleteDisabled(contactId) ==
    LET selection == selectionOf(contactId)
        hasSelection == selection.emailed \/ selection.called
    IN  submittingId = <<contactId>> \/ ~hasSelection

\* the part of fetchData before its first await
fetchDataCall(after) ==
    /\ isBusinessDayToday' = isBusinessDay(today)
    /\ nextBusinessDay' = <<getNextBusinessDay(today)>>
    /\ fetches' = Append(fetches, [pc |-> "query", after |-> after,
                                   result |-> <<>>])

\* useEffect(() => { fetchData(); }, [])
TodoMount ==
    /\ route = "/todo"
    /\ loading
    /\ fetches = <<>>
    /\ fetchDataCall(<<>>)
    /\ UNCHANGED <<stats, tz, today, dbVars, loading, allDueContacts,
                   todayContacts, nextDayContacts, calc, crmVars, selections,
                   submittingId, submits, alertMessage>>

\* the queries of a fetchData call run, and the lists are computed from
\* what they return
TodoFetchQuery ==
    \E i \in DOMAIN fetches :
        /\ fetches[i].pc = "query"
        /\ fetches' = [fetches EXCEPT ![i] =
                          [pc |-> "response", after |-> fetches[i].after,
                           result |-> [all |-> fetchedAll,
                                       today |-> fetchedToday,
                                       nextDay |-> fetchedNextDay]]]
        /\ UNCHANGED <<stats, tz, today, dbVars, pageVars, calc, crmVars,
                       selections, submittingId, submits, alertMessage>>

\* the rest of the fetchData call i, and of the handleSubmit that awaits it
FetchDone(i) ==
    /\ fetches[i].pc = "response"
    /\ allDueContacts' = fetches[i].result.all
    /\ todayContacts' = fetches[i].result.today
    /\ nextDayContacts' = fetches[i].result.nextDay
    /\ loading' = FALSE
    /\ submittingId' = IF fetches[i].after # <<>> THEN <<>> ELSE submittingId
    /\ fetches' = RemoveAt(fetches, i)
    /\ UNCHANGED <<stats, tz, today, dbVars, isBusinessDayToday,
                   nextBusinessDay, calc, crmVars, selections, submits,
                   alertMessage>>

TodoFetchDone == \E i \in DOMAIN fetches : FetchDone(i)

toggleSelection ==
    /\ todoListShown
    /\ \E contactId \in listedIds(todayContacts), field \in {"emailed", "called"} :
          LET prev == selectionOf(contactId)
          IN  selections' =
                 withSelection(contactId,
                     [emailed |-> IF field = "emailed" THEN ~prev.emailed
                                  ELSE prev.emailed,
                      called |-> IF field = "called" THEN ~prev.called
                                 ELSE prev.called,
                      notes |-> prev.notes])
    /\ UNCHANGED <<stats, tz, today, dbVars, pageVars, calc, crmVars,
                   submittingId, submits, fetches, alertMessage>>

updateNotes ==
    /\ todoListShown
    /\ \E contactId \in listedIds(todayContacts), notes \in NoteTexts :
          LET prev == selectionOf(contactId)
          IN  selections' =
                 withSelection(contactId, [emailed |-> prev.emailed,
                                           called |-> prev.called,
                                           notes |-> notes])
    /\ UNCHANGED <<stats, tz, today, dbVars, pageVars, calc, crmVars,
                   submittingId, submits, fetches, alertMessage>>

\* handleSubmit(contactId) up to its await of the insert
handleSubmitCall(contactId) ==
    LET selection == selectionOf(contactId)
    IN  /\ IF ~selection.emailed /\ ~selection.called
           THEN /\ alertMessage' = <<"Please select at least one action">>
                /\ UNCHANGED <<submittingId, submits>>
           ELSE /\ submittingId' = <<contactId>>
                /\ submits' = Append(submits,
                                  [contactId |-> contactId,
                                   methods |-> selectionMethods(selection.emailed,
                                                                selection.called)])
                /\ UNCHANGED alertMessage
        /\ UNCHANGED <<stats, tz, today, dbVars, pageVars, calc, crmVars,
                       selections, fetches>>

\* a click on an enabled 'Mark Complete'
MarkComplete ==
    /\ todoListShown
    /\ Len(submits) + Len(fetches) < MaxInFlight
    /\ \E contactId \in listedIds(todayContacts) :
          /\ ~markCompleteDisabled(contactId)
          /\ handleSubmitCall(contactId)

\* a call of handleSubmit while no other call is pending
handleSubmit ==
    /\ route = "/todo"
    /\ submits = <<>>
    /\ fetches = <<>>
    /\ \E contactId \in DOMAIN contacts : handleSubmitCall(contactId)

\* variant: the selection is cleared when the insert fails
InsertFailed_ClearSelection(i) ==
    /\ alertMessage' = <<"Failed to log outreach">>
    /\ submittingId' = <<>>
    /\ submits' = RemoveAt(submits, i)
    /\ selections' = withoutSelection(submits[i].contactId)
    /\ UNCHANGED <<stats, tz, today, dbVars, pageVars, calc, crmVars,
                   fetches>>

\* the insert of call i fails: the error branch of handleSubmit
InsertFailed(i) ==
    /\ alertMessage' = <<"Failed to log outreach">>
    /\ submittingId' = <<>>
    /\ submits' = RemoveAt(submits, i)
    /\ UNCHANGED selections
    /\ UNCHANGED <<stats, tz, today, dbVars, pageVars, calc, crmVars,
                   fetches>>

TodoInsertFailed == \E i \in DOMAIN submits : InsertFailed(i)

\* the insert of call i succeeds: the else branch up to the await of
\* fetchData
InsertDone(i) ==
    LET contactId == submits[i].contactId
        methods == submits[i].methods
    IN  /\ nextId.logs + Len(methods) - 1 <= MaxTodoLogs
        /\ \E date \in insertDates :
              /\ outreach_logs' = insertLogs(contactId, methods, date)
              /\ fetchDataCall(<<contactId, date>>)
        /\ nextId' = [nextId EXCEPT !.logs = @ + Len(methods)]
        /\ selections' = withoutSelection(contactId)
        /\ submits' = RemoveAt(submits, i)
        /\ UNCHANGED <<stats, tz, today, opportunities, contacts, loading,
                       allDueContacts, todayContacts, nextDayContacts, calc,
                       route, detail, form, history, contactsPage,
                       submittingId, alertMessage>>

TodoInsertDone == \E i \in DOMAIN submits : InsertDone(i)

\* openHistory, and fetchLogs of the modal it mounts
TodoOpenHistory ==
    /\ todoListShown
    /\ history.contactId = <<>>
    /\ \E contactId \in listedIds(todayContacts) :
          history' = [contactId |-> <<contactId>>,
                      logs |-> LogsNewestFirst({l \in outreach_logs :
                                                  l.contact_id = contactId})]
    /\ UNCHANGED <<stats, tz, today, dbVars, pageVars, calc, nextId, route,
                   detail, form, contactsPage, todoVars>>

\* handleDelete of the modal over the to-do page: fetchLogs() and
\* onDelete = fetchData follow a delete that succeeds
TodoModalHandleDelete ==
    /\ route = "/todo"
    /\ history.contactId # <<>>
    /\ Len(submits) + Len(fetches) < MaxInFlight
    /\ \E logId \in listedIds(history.logs) :
          /\ outreach_logs' = {l \in outreach_logs : l.id # logId}
          /\ history' = [history EXCEPT
                            !.logs = LogsNewestFirst(
                                       {l \in outreach_logs \ {x \in outreach_logs : x.id = logId} :
                                          <<l.contact_id>> = history.contactId})]
    /\ fetchDataCall(<<>>)
    /\ UNCHANGED <<stats, tz, today, opportunities, contacts, loading,
                   allDueContacts, todayContacts, nextDayContacts, calc,
                   nextId, route, detail, form, contactsPage, selections,
                   submittingId, submits, alertMessage>>

----------------------------------------------------------------------------
(* DashboardPage.fetchStats *)

\* the local variable dueDate of the forEach over the contacts
statsDueDate(contactId) ==
    LET last == lastOutreach(contactId)
    IN  IF last # <<>>
        THEN addBusinessDays(localMidnight(last[1]),
                             contacts[contactId].cadence_days)
        ELSE today

\* the contacts the forEach does not skip
statsContacts == {c \in DOMAIN contacts :
                    contacts[c].opportunity_id \in prospectOppIds}

\* the counter contactsDueToday after the forEach
contactsDueToday ==
    Cardinality({c \in statsContacts :
                   formatDate(statsDueDate(c)) = formatDate(today)})

\* the counter contactsOverdue after the forEach
contactsOverdue ==
    Cardinality({c \in statsContacts :
                   /\ formatDate(statsDueDate(c)) # formatDate(today)
                   /\ statsDueDate(c) < today})

\* the variable streak after the two loops
currentStreak ==
    LET RECURSIVE lastBusinessDay(_)
        lastBusinessDay(checkDate) ==
            IF isBusinessDay(checkDate) THEN checkDate
            ELSE lastBusinessDay(checkDate - 1)
        RECURSIVE loop(_, _)
        loop(checkDate, streak) ==
            LET dateStr == formatDate(checkDate)
                hasOutreach == \E l \in outreach_logs : l.contact_date = dateStr
            IN  IF hasOutreach
                THEN loop(lastBusinessDay(checkDate - 1), streak + 1)
                ELSE streak
    IN  loop(lastBusinessDay(today), 0)

DashboardRoute == "/dashboard"

FetchStats ==
    /\ route = DashboardRoute
    /\ stats' = [contactsDueToday |->
                    IF isBusinessDay(today)
                    THEN contactsDueToday + contactsOverdue ELSE 0,
                 contactsOverdue |-> contactsOverdue,
                 currentStreak |-> currentStreak]
    /\ UNCHANGED <<todoVars, tz, today, dbVars, pageVars, calc, crmVars>>

----------------------------------------------------------------------------
(* The weekly chart of the activity dashboard.  A year is given by the day  *)
(* number of its January 1 and the lengths of it and of the year before;    *)
(* getFullYear is relative to the current year: -1, 0 or 1.                 *)

ChartWeeks == 52
YearLengths == {365, 366}
YearStarts == 371..377

getFullYear(date, cal) ==
    IF date < cal.jan1 THEN -1
    ELSE IF date < cal.jan1 + cal.days THEN 0
    ELSE 1

\* new Date(year, 0, 1)
januaryFirst(year, cal) ==
    IF year = -1 THEN cal.jan1 - cal.prevDays
    ELSE IF year = 0 THEN cal.jan1
    ELSE cal.jan1 + cal.days

getWeekNumber(date, cal) ==
    LET d == date + 4 - (IF getDay(date) = 0 THEN 7 ELSE getDay(date))
        yearStart == januaryFirst(getFullYear(d, cal), cal)
    IN  ((d - yearStart) + 1 + 6) \div 7

\* weekStart of the bucket of a week
weekStartOf(week, cal) ==
    LET jan1 == januaryFirst(0, cal)
        rest == (8 - getDay(jan1)) % 7
        daysToFirstMonday == IF rest = 0 THEN 7 ELSE rest
        firstMonday == jan1 + daysToFirstMonday
    IN  firstMonday + (week - 1) * 7

\* weeklyData for logs with the given contact_date values: the bounds of the
\* label and the count of every bucket
weeklyData(logDates, cal) ==
    [week \in 1..ChartWeeks |->
        [weekStart |-> weekStartOf(week, cal),
         weekEnd |-> weekStartOf(week, cal) + 6,
         touches |->
            Cardinality({contact_date \in logDates :
                LET logDate == localMidnight(contact_date)
                IN  /\ getFullYear(logDate, cal) = 0
                    /\ getWeekNumber(logDate, cal) = week})]]

CalcWeekly ==
    /\ calc.pc = "log"
    /\ calc' = [calc EXCEPT !.pc = "charted",
                            !.weeklyData = weeklyData({calc.contact_date}, calc)]
    /\ UNCHANGED <<todoVars, stats, tz, today, dbVars, pageVars, crmVars>>

----------------------------------------------------------------------------
(* Specifications *)

\* account names of the seeded opportunities: "Mercy", "apex", "Banner", ...
healthSystemName(o) == LocaleOrder[((o + 1) % Len(LocaleOrder)) + 1]

LogUniverse(t) == [contact_id : ContactIds, contact_date : (t - LookBack)..t]

\* the other pages before their first load; the next contact id is the one
\* after the seeded contacts
CrmInit ==
    /\ nextId = [contacts |-> Cardinality(DOMAIN contacts) + 1, logs |-> 1]
    /\ route = "/todo"
    /\ detail = [opportunity |-> <<>>, contacts |-> <<>>]
    /\ form = emptyContactForm
    /\ history = [contactId |-> <<>>, logs |-> <<>>]
    /\ contactsPage = [contacts |-> <<>>, selectedIds |-> {}]

\* TodoPage state of the handlers, and the dashboard, before their first use
TodoInit ==
    /\ selections = <<>>
    /\ submittingId = <<>>
    /\ submits = <<>>
    /\ fetches = <<>>
    /\ alertMessage = <<>>

PageInit ==
    /\ loading = TRUE
    /\ isBusinessDayToday = TRUE
    /\ nextBusinessDay = <<>>
    /\ allDueContacts = <<>>
    /\ todayContacts = <<>>
    /\ nextDayContacts = <<>>

Init ==
    /\ tz \in TimeZones
    /\ today \in Todays
    /\ \E status \in [OppIds -> Statuses] :
          opportunities = [o \in OppIds |->
                             [status |-> status[o],
                              health_system |-> healthSystemName(o)]]
    /\ \E cadence \in [ContactIds -> Cadences] :
          contacts = [c \in ContactIds |->
                        [opportunity_id |-> ((c - 1) % NumOpps) + 1,
                         cadence_days |-> cadence[c]]]
    /\ outreach_logs \in {L \in SUBSET LogUniverse(today) :
                            Cardinality(L) <= MaxLogs}
    /\ PageInit
    /\ TodoInit
    /\ stats = <<>>
    /\ CrmInit
    /\ calc = CalcIdle

Next == FetchData

Spec == Init /\ [][Next]_vars

CalcInit ==
    /\ tz = "utc"
    /\ today = 15
    /\ opportunities = [o \in OppIds |->
                           [status |-> "prospect",
                            health_system |-> healthSystemName(o)]]
    /\ contacts = [c \in ContactIds |-> [opportunity_id |-> 1,
                                         cadence_days |-> 10]]
    /\ outreach_logs = {}
    /\ PageInit
    /\ TodoInit
    /\ stats = <<>>
    /\ CrmInit
    /\ calc \in [pc : {"args"}, start : CalcDates, n : 0..MaxCalcDays,
                 end : CalcDates, added : {0}, counted : {0},
                 week : {<<>>}, next : {0}, prev : {0}]

CalcNext ==
    CalcAdd \/ CalcCount \/ CalcCountAdded \/ CalcWeek \/ CalcNeighbours

CalcSpec == CalcInit /\ [][CalcNext]_vars

\* Every contact has its own prospect opportunity and either no log or a
\* last log one to two weeks old, with or without an earlier log a week
\* before it; cadences of one day, one week and two weeks.
WideInit ==
    /\ tz \in TimeZones
    /\ today \in Todays
    /\ opportunities = [o \in WideIds |->
                           [status |-> "prospect",
                            health_system |-> healthSystemName(o)]]
    /\ \E profile \in [WideIds -> WideProfiles] :
          /\ contacts = [c \in WideIds |-> [opportunity_id |-> c,
                                            cadence_days |-> profile[c][1]]]
          /\ \E older \in {{}, {WideOlder}} :
                outreach_logs =
                    {[contact_id |-> c,
                      contact_date |-> today - profile[c][2] - age] :
                        c \in {x \in WideIds : profile[x][2] # 0},
                        age \in {0} \cup older}
    /\ PageInit
    /\ TodoInit
    /\ stats = <<>>
    /\ CrmInit
    /\ calc = CalcIdle

WideNext == FetchData

WideSpec == WideInit /\ [][WideNext]_vars

\* The to-do page before its mount on a Monday: never-contacted contacts of
\* a prospect opportunity.
TodoInit0 ==
    /\ tz = "utc"
    /\ today = 15
    /\ opportunities = [o \in OppIds |->
                           [status |-> "prospect",
                            health_system |-> healthSystemName(o)]]
    /\ contacts = [c \in ContactIds |->
                     [opportunity_id |-> ((c - 1) % NumOpps) + 1,
                      cadence_days |-> ((c - 1) % MaxCadence) + 1]]
    /\ outreach_logs = {}
    /\ nextId = [contacts |-> NumContacts + 1, logs |-> 1]
    /\ route = "/todo"
    /\ detail = [opportunity |-> <<>>, contacts |-> <<>>]
    /\ form = emptyContactForm
    /\ history = [contactId |-> <<>>, logs |-> <<>>]
    /\ contactsPage = [contacts |-> <<>>, selectedIds |-> {}]
    /\ calc = CalcIdle
    /\ stats = <<>>
    /\ PageInit
    /\ TodoInit

TodoNext ==
    \/ TodoMount
    \/ TodoFetchQuery
    \/ TodoFetchDone
    \/ toggleSelection
    \/ MarkComplete
    \/ TodoInsertFailed
    \/ TodoInsertDone
    \/ TodoOpenHistory
    \/ closeHistory
    \/ TodoModalHandleDelete

TodoSpec == TodoInit0 /\ [][TodoNext]_vars

\* what a contact's entry of selections may hold; <<>> is no entry
SubmitSelections ==
    {<<>>,
     <<[emailed |-> TRUE, called |-> FALSE, notes |-> ""]>>,
     <<[emailed |-> FALSE, called |-> TRUE, notes |-> ""]>>,
     <<[emailed |-> TRUE, called |-> TRUE, notes |-> ""]>>}

\* The to-do page loaded on a Monday with any boxes ticked, the first
\* contact with a log of a week ago; notes are typed and handleSubmit is called for any
\* contact, one call at a time.
SubmitInit ==
    /\ tz \in TimeZones
    /\ today = 15
    /\ opportunities = [o \in OppIds |->
                           [status |-> "prospect",
                            health_system |-> healthSystemName(o)]]
    /\ contacts = [c \in ContactIds |->
                     [opportunity_id |-> ((c - 1) % NumOpps) + 1,
                      cadence_days |-> ((c - 1) % MaxCadence) + 1]]
    /\ outreach_logs = {[id |-> 0, contact_id |-> 1,
                          contact_date |-> today - 7,
                          contact_method |-> "email"]}
    /\ nextId = [contacts |-> NumContacts + 1, logs |-> 1]
    /\ route = "/todo"
    /\ detail = [opportunity |-> <<>>, contacts |-> <<>>]
    /\ form = emptyContactForm
    /\ history = [contactId |-> <<>>, logs |-> <<>>]
    /\ contactsPage = [contacts |-> <<>>, selectedIds |-> {}]
    /\ calc = CalcIdle
    /\ stats = <<>>
    /\ loading = FALSE
    /\ isBusinessDayToday = isBusinessDay(today)
    /\ nextBusinessDay = <<getNextBusinessDay(today)>>
    /\ allDueContacts = fetchedAll
    /\ todayContacts = fetchedToday
    /\ nextDayContacts = fetchedNextDay
    /\ \E chosen \in [ContactIds -> SubmitSelections] :
          selections = [c \in {x \in ContactIds : chosen[x] # <<>>} |->
                          chosen[c][1]]
    /\ submittingId = <<>>
    /\ submits = <<>>
    /\ fetches = <<>>
    /\ alertMessage = <<>>

SubmitNext ==
    \/ updateNotes
    \/ handleSubmit
    \/ TodoInsertFailed
    \/ TodoInsertDone
    \/ TodoFetchQuery
    \/ TodoFetchDone

SubmitSpec == SubmitInit /\ [][SubmitNext]_vars

\* The dashboard over contacts with at most one log each, of the last days.
DashInit ==
    /\ tz \in TimeZones
    /\ today \in Todays
    /\ \E status \in [OppIds -> {"prospect", "won"}] :
          opportunities = [o \in OppIds |->
                             [status |-> status[o],
                              health_system |-> healthSystemName(o)]]
    /\ contacts = [c \in ContactIds |->
                     [opportunity_id |-> ((c - 1) % NumOpps) + 1,
                      cadence_days |-> ((c - 1) % MaxCadence) + 1]]
    /\ \E last \in [ContactIds ->
                       {<<>>} \cup {<<d>> : d \in (today - DashBack)..today}] :
          outreach_logs = {[contact_id |-> c, contact_date |-> last[c][1]] :
                             c \in {x \in ContactIds : last[x] # <<>>}}
    /\ PageInit
    /\ TodoInit
    /\ stats = <<>>
    /\ nextId = [contacts |-> NumContacts + 1, logs |-> 1]
    /\ route = DashboardRoute
    /\ detail = [opportunity |-> <<>>, contacts |-> <<>>]
    /\ form = emptyContactForm
    /\ history = [contactId |-> <<>>, logs |-> <<>>]
    /\ contactsPage = [contacts |-> <<>>, selectedIds |-> {}]
    /\ calc = CalcIdle

DashNext == FetchStats

DashSpec == DashInit /\ [][DashNext]_vars

\* One log of any date of a year, for every weekday of January 1 and both
\* year lengths.
ChartInit ==
    /\ tz \in TimeZones
    /\ calc \in {c \in [pc : {"log"}, jan1 : YearStarts, prevDays : YearLengths,
                         days : YearLengths,
                         contact_date : 370..(377 + 366),
                         weeklyData : {<<>>}] :
                    /\ ~(c.prevDays = 366 /\ c.days = 366)
                    /\ c.contact_date >= c.jan1
                    /\ c.contact_date <= c.jan1 + c.days}
    /\ today = calc.jan1 + 14
    /\ opportunities = [o \in OppIds |->
                           [status |-> "prospect",
                            health_system |-> healthSystemName(o)]]
    /\ contacts = [c \in ContactIds |-> [opportunity_id |-> 1,
                                         cadence_days |-> 10]]
    /\ outreach_logs = {[contact_id |-> 1, contact_date |-> calc.contact_date]}
    /\ PageInit
    /\ TodoInit
    /\ stats = <<>>
    /\ nextId = [contacts |-> NumContacts + 1, logs |-> 1]
    /\ route = DashboardRoute
    /\ detail = [opportunity |-> <<>>, contacts |-> <<>>]
    /\ form = emptyContactForm
    /\ history = [contactId |-> <<>>, logs |-> <<>>]
    /\ contactsPage = [contacts |-> <<>>, selectedIds |-> {}]

ChartNext == CalcWeekly

ChartSpec == ChartInit /\ [][ChartNext]_vars

\* The route's prospect opportunity without contacts; the pages then create,
\* edit and delete contacts and logs.
CrmInit0 ==
    /\ tz \in TimeZones
    /\ today = 17
    /\ opportunities = [o \in OppIds |->
                           [status |-> "prospect",
                            health_system |-> healthSystemName(o)]]
    /\ contacts = <<>>
    /\ outreach_logs = {}
    /\ PageInit
    /\ TodoInit
    /\ stats = <<>>
    /\ nextId = [contacts |-> 1, logs |-> 1]
    /\ route = DetailRoute
    /\ detail = [opportunity |-> <<>>, contacts |-> <<>>]
    /\ form = emptyContactForm
    /\ history = [contactId |-> <<>>, logs |-> <<>>]
    /\ contactsPage = [contacts |-> <<>>, selectedIds |-> {}]
    /\ calc = CalcIdle

CrmNext ==
    \/ navigate
    \/ DetailFetchData
    \/ DetailShowForm
    \/ DetailChangeCadence
    \/ DetailHandleEdit
    \/ DetailHandleCancel
    \/ DetailHandleSubmit
    \/ DetailHandleDelete
    \/ DetailHandleStatusChange
    \/ DetailHandleLogSubmit
    \/ DetailOpenHistory
    \/ closeHistory
    \/ ModalHandleDelete
    \/ ContactsFetchData
    \/ toggleSelect
    \/ ContactsHandleDelete
    \/ ContactsHandleBulkDelete

CrmSpec == CrmInit0 /\ [][CrmNext]_vars

----------------------------------------------------------------------------
(* Properties *)

\* Monday to Friday, read off the day number
IsWeekday(d) == (d % 7) \in 1..5

\* the earliest Monday-to-Friday date strictly after d
FirstWeekdayAfter(d) ==
    CHOOSE x \in (d + 1)..(d + 7) :
        IsWeekday(x) /\ \A y \in (d + 1)..(x - 1) : ~IsWeekday(y)

\* the entries fetchData computed, one per contact of a prospect opportunity
Computed == {allDueContacts[i] : i \in DOMAIN allDueContacts}

InTodayList(id) == \E i \in DOMAIN todayContacts : todayContacts[i].id = id

InNextDayList(id) == \E i \in DOMAIN nextDayContacts : nextDayContacts[i].id = id

NeverContacted(r) == r.last_contact_date = <<>>

\* C1: for every contact with an outreach event, the due date fetchData
\* computes is addBusinessDays(calendar date of the most recent event,
\* cadence).
C1_DueDateFromLastEvent ==
    ~loading =>
        \A r \in Computed :
            ~NeverContacted(r) =>
                r.dueDate = addBusinessDays(r.last_contact_date[1], r.cadence_days)

\* C2: a contact is in todayContacts if and only if its computed due date is
\* on or before today.
C2_TodayIffDue ==
    ~loading =>
        \A r \in Computed : InTodayList(r.id) <=> (r.dueDate <= today)

\* C3: a contact is in nextDayContacts if and only if its computed due date
\* is the next business day after today.
C3_NextDayIffDueNext ==
    ~loading =>
        \A r \in Computed :
            InNextDayList(r.id) <=> (r.dueDate = FirstWeekdayAfter(today))

\* C4 (as stated): a contact without outreach events is in today's due set
\* for every value of today, business day or not.
C4_NeverContactedAlwaysDue ==
    ~loading => \A r \in Computed : NeverContacted(r) => InTodayList(r.id)

\* C4 (amended): a contact without outreach events is in today's due set
\* whenever today is a business day.
C4_NeverContactedDueOnBusinessDay ==
    (~loading /\ IsWeekday(today)) =>
        \A r \in Computed : NeverContacted(r) => InTodayList(r.id)

C4_Witness ==
    /\ ~loading
    /\ IsWeekday(today)
    /\ \E r \in Computed : NeverContacted(r) /\ InTodayList(r.id)

\* C5: for a contact without outreach events the due date is today when
\* today is a business day, and otherwise the first business day after today.
C5_NeverContactedDueDate ==
    ~loading =>
        \A r \in Computed :
            NeverContacted(r) =>
                r.dueDate = IF IsWeekday(today) THEN today
                            ELSE FirstWeekdayAfter(today)

C5_Witness ==
    /\ ~loading
    /\ today % 7 = 6
    /\ \E r \in Computed : NeverContacted(r) /\ r.dueDate = today + 2

\* C6: on a Saturday or Sunday a never-contacted contact has the following
\* Monday as its due date, is absent from today's due set and is present in
\* the next-business-day set.
C6_WeekendNeverContacted ==
    (~loading /\ ~IsWeekday(today)) =>
        \A r \in Computed :
            NeverContacted(r) =>
                /\ r.dueDate % 7 = 1
                /\ r.dueDate \in (today + 1)..(today + 2)
                /\ ~InTodayList(r.id)
                /\ InNextDayList(r.id)

\* C7: countBusinessDays(d, addBusinessDays(d, n)) = n for every start date
\* d, business day or weekend, and every n >= 0.
C7_CountOfAdd ==
    calc.pc = "roundtrip" => calc.counted = calc.n

C7_Witness ==
    calc.pc = "roundtrip" /\ ~IsWeekday(calc.start) /\ calc.n >= 6

\* C8: countBusinessDays(start, end) is the number of Monday-to-Friday dates
\* x with start < x <= end, and is 0 whenever end <= start.
C8_CountIsInterval ==
    calc.pc = "counted" =>
        /\ calc.counted =
               Cardinality({x \in (calc.start + 1)..calc.end : IsWeekday(x)})
        /\ calc.end <= calc.start => calc.counted = 0

C8_Witness ==
    calc.pc = "counted" /\ calc.end >= calc.start + 7 /\ calc.counted >= 5

\* C9: for every date d and every n >= 1, addBusinessDays(d, n) is a Monday
\* to Friday date, also when d is a Saturday or Sunday.
C9_AddLandsOnBusinessDay ==
    (calc.pc \in {"added", "roundtrip"} /\ calc.n >= 1) => IsWeekday(calc.added)

C9_Witness ==
    calc.pc = "added" /\ calc.n >= 1 /\ ~IsWeekday(calc.start)
        /\ calc.added >= calc.start + 7

\* C10: addBusinessDays(d, 0) = d for every date d, weekend dates included.
C10_AddZeroIsIdentity ==
    (calc.pc \in {"added", "roundtrip"} /\ calc.n = 0) => calc.added = calc.start

C10_Witness ==
    calc.pc = "added" /\ calc.n = 0 /\ ~IsWeekday(calc.start)

\* C12: days_overdue of every contact is the number of business days after
\* its due date up to and including today; a due date one week before a
\* business-day today gives 5.
C12_DaysOverdue ==
    ~loading =>
        \A r \in Computed :
            /\ r.days_overdue =
                   Cardinality({x \in (r.dueDate + 1)..today : IsWeekday(x)})
            /\ (r.dueDate = today - 7 /\ IsWeekday(today)) => r.days_overdue = 5

C12_Witness ==
    /\ ~loading
    /\ IsWeekday(today)
    /\ \E r \in Computed :
          r.dueDate = today - 7 /\ r.days_overdue = 5 /\ r.is_rollover

\* C13: is_rollover is true exactly when the due date is strictly before
\* today and today is a business day; never for a contact due today, never
\* on a Saturday or Sunday.
C13_Rollover ==
    ~loading =>
        \A r \in Computed :
            /\ r.is_rollover <=> (r.dueDate < today /\ IsWeekday(today))
            /\ r.dueDate = today => ~r.is_rollover
            /\ ~IsWeekday(today) => ~r.is_rollover

C13_Witness ==
    ~loading /\ \E r \in Computed : r.is_rollover /\ r.dueDate < today

\* C15: isBusinessDay(date) is true if and only if the date is a Monday to
\* Friday; of seven consecutive dates exactly two are not business days, the
\* Saturday and the Sunday.
C15_BusinessDayIsWeekday ==
    calc.pc = "week" =>
        /\ \A i \in 0..6 : calc.week[i] <=> IsWeekday(calc.start + i)
        /\ Cardinality({i \in 0..6 : ~calc.week[i]}) = 2
        /\ \A i \in 0..6 : ~calc.week[i] => (calc.start + i) % 7 \in {0, 6}

C15_Witness ==
    calc.pc = "week" /\ calc.start % 7 = 3 /\ ~calc.week[3] /\ ~calc.week[4]

\* C16: getNextBusinessDay(d) is the earliest business day strictly after d
\* and getPreviousBusinessDay(d) the latest business day strictly before d.
C16_NextAndPrevious ==
    calc.pc = "neighbours" =>
        /\ calc.next > calc.start
        /\ IsWeekday(calc.next)
        /\ \A x \in (calc.start + 1)..(calc.next - 1) : ~IsWeekday(x)
        /\ calc.prev < calc.start
        /\ IsWeekday(calc.prev)
        /\ \A x \in (calc.prev + 1)..(calc.start - 1) : ~IsWeekday(x)

C16_Witness ==
    /\ calc.pc = "neighbours"
    /\ calc.start % 7 = 0
    /\ calc.next = calc.start + 1
    /\ calc.prev = calc.start - 2

\* C11: with a last contact on a business day and a cadence of 5k business
\* days the due date is 7k calendar days later; cadence 10 after a Monday
\* gives the Monday two weeks later.
C11_WholeWeeks ==
    ~loading =>
        \A r \in Computed :
            (/\ ~NeverContacted(r)
             /\ IsWeekday(r.last_contact_date[1])
             /\ r.cadence_days % 5 = 0)
                => r.dueDate = r.last_contact_date[1] + 7 * (r.cadence_days \div 5)

\* position of an account name in an ordering of the names
NameRank(order, name) == CHOOSE i \in DOMAIN order : order[i] = name

\* the names by UTF-16 code units: upper case before lower case
CodeUnitOrder == <<"Banner", "Mercy", "apex">>

\* a may stand before b: rollover first, then more overdue days first, then
\* the account names by the given ordering
MayPrecede(a, b, order) ==
    \/ a.is_rollover /\ ~b.is_rollover
    \/ /\ a.is_rollover = b.is_rollover
       /\ \/ a.days_overdue > b.days_overdue
          \/ /\ a.days_overdue = b.days_overdue
             /\ NameRank(order, a.health_system) <= NameRank(order, b.health_system)

\* C14 (as stated): todayContacts lists rollovers first, then descending
\* days_overdue, then ascending account name under a case-sensitive lexical
\* comparison.
C14_OrderCaseSensitive ==
    \A i, j \in DOMAIN todayContacts :
        i < j => MayPrecede(todayContacts[i], todayContacts[j], CodeUnitOrder)

\* C14 (amended): todayContacts lists rollovers first, then descending
\* days_overdue, then ascending account name under String.localeCompare,
\* which ranks letters alphabetically before it looks at their case.
C14_OrderLocaleCompare ==
    \A i, j \in DOMAIN todayContacts :
        i < j => MayPrecede(todayContacts[i], todayContacts[j], LocaleOrder)

C14_Witness ==
    /\ Len(todayContacts) = 3
    /\ todayContacts[1].is_rollover /\ todayContacts[1].days_overdue = 7
    /\ todayContacts[2].is_rollover /\ todayContacts[2].days_overdue = 3
    /\ ~todayContacts[3].is_rollover /\ todayContacts[3].dueDate = today
    /\ todayContacts[1].id > todayContacts[2].id

\* C17: no step of any page changes a log that exists before and after it:
\* logs are only inserted and deleted.
C17_LogsNeverMutated ==
    [][\A l \in outreach_logs : \A m \in outreach_logs' :
          m.id = l.id => m = l]_vars

C17_Witness ==
    /\ outreach_logs # {}
    /\ \E c \in DOMAIN contacts : contacts[c].cadence_days = 7
    /\ opportunities[opportunityId].status = "won"
    /\ route = "/contacts"

\* C18: every log belongs to a contact that exists, so a deleted contact,
\* deleted alone or in bulk, leaves none of its logs behind.
C18_NoOrphanLogs ==
    \A l \in outreach_logs : l.contact_id \in DOMAIN contacts

C18_Witness ==
    /\ nextId.contacts > 1
    /\ nextId.logs > 1
    /\ DOMAIN contacts = {}
    /\ outreach_logs = {}
    /\ contactsPage.contacts = <<>>
    /\ route = "/contacts"
    /\ history.contactId = <<>>

\* C20: the cadence of every stored contact is a positive integer, whatever
\* was typed into the contact form before a create or an edit.
C20_CadencePositive ==
    \A c \in DOMAIN contacts :
        contacts[c].cadence_days \in Nat /\ contacts[c].cadence_days >= 1

C20_Witness ==
    /\ \E c \in DOMAIN contacts : contacts[c].cadence_days = 7
    /\ form.showForm
    /\ form.editingId # <<>>
    /\ form.cadence_days = -3

\* C22: only contacts of an opportunity whose status is 'prospect' are in
\* todayContacts or nextDayContacts; of an opportunity that is 'active' or
\* 'won' no contact is in either list after a fetch.
C22_OnlyProspectListed ==
    ~loading =>
        \A c \in DOMAIN contacts :
            (InTodayList(c) \/ InNextDayList(c)) =>
                opportunities[contacts[c].opportunity_id].status = "prospect"

C22_Witness ==
    /\ ~loading
    /\ \E c \in DOMAIN contacts :
          /\ opportunities[contacts[c].opportunity_id].status = "won"
          /\ ~InTodayList(c)
          /\ ~InNextDayList(c)
          /\ outreach_logs = {}
          /\ IsWeekday(today)

\* C29: is_rollover is true exactly when days_overdue is at least 1 and today
\* is a business day; days_overdue is never negative and is 0 when the due
\* date is today or later.
C29_RolloverIffOverdue ==
    ~loading =>
        \A r \in Computed :
            /\ r.is_rollover <=> (r.days_overdue >= 1 /\ IsWeekday(today))
            /\ r.days_overdue >= 0
            /\ r.dueDate >= today => r.days_overdue = 0

C29_Witness ==
    /\ ~loading
    /\ \E r \in Computed : r.is_rollover /\ r.days_overdue = 1
    /\ \E r \in Computed :
          r.dueDate = today /\ r.days_overdue = 0 /\ ~r.is_rollover

\* C21: the last outreach fetchData keeps for a contact is the greatest
\* contact_date among that contact's logs, and a contact has no entry
\* exactly when it has no log.
C21_LastOutreachIsLatest ==
    ~loading =>
        \A r \in Computed :
            LET dates == {l.contact_date :
                            l \in {x \in outreach_logs : x.contact_id = r.id}}
            IN  /\ NeverContacted(r) <=> dates = {}
                /\ ~NeverContacted(r) =>
                       /\ r.last_contact_date[1] \in dates
                       /\ \A d \in dates : d <= r.last_contact_date[1]

C21_Witness ==
    /\ ~loading
    /\ \E r \in Computed : NeverContacted(r)
    /\ \E r \in Computed, l \in outreach_logs :
          /\ ~NeverContacted(r)
          /\ l.contact_id = r.id
          /\ l.contact_date < r.last_contact_date[1]

\* C24: the current streak of the dashboard is the number of consecutive
\* business days with at least one log, counted backwards from today, or
\* from the most recent business day when today is a Saturday or Sunday, up
\* to the first business day without a log; Saturdays and Sundays neither
\* add to the streak nor break it.
C24_StreakOfBusinessDays ==
    stats # <<>> =>
        LET start == CHOOSE d \in (today - 2)..today :
                        IsWeekday(d) /\ \A e \in (d + 1)..today : ~IsWeekday(e)
            LoggedOn(d) == \E l \in outreach_logs : l.contact_date = d
            Run == {d \in (today - DashBack - 7)..start :
                      /\ IsWeekday(d)
                      /\ \A e \in d..start : IsWeekday(e) => LoggedOn(e)}
        IN  stats.currentStreak = Cardinality(Run)

\* C28: the 'Due Today' count of the dashboard is the number of contacts in
\* the to-do page's today's due set on a business day and 0 on a Saturday
\* or Sunday.
C28_DueTodayCount ==
    stats # <<>> =>
        stats.contactsDueToday =
            IF IsWeekday(today) THEN Len(fetchedToday) ELSE 0

\* C30: every log the weekly chart counts in the bucket of week w has a date
\* within the Monday-to-Sunday range the bucket's label shows.
C30_BucketWithinLabel ==
    calc.pc = "charted" =>
        \A w \in 1..ChartWeeks :
            calc.weeklyData[w].touches > 0 =>
                /\ calc.weeklyData[w].weekStart <= calc.contact_date
                /\ calc.contact_date <= calc.weeklyData[w].weekEnd

\* the rows a step adds to outreach_logs
AddedLogs == outreach_logs' \ outreach_logs

\* C23: a call of handleSubmit for a contact with neither box ticked inserts
\* no log and changes no page state; the insert of any other call adds, in
\* one step, exactly one log per ticked box, all of that contact; when the
\* insert fails the selection and its notes stay and the lists are not
\* fetched again; and once no call is pending submittingId is null.
C23_SubmitPaths ==
    [][/\ \A c \in DOMAIN contacts :
             (handleSubmitCall(c) /\ ~selectionOf(c).emailed
                                  /\ ~selectionOf(c).called) =>
                 /\ outreach_logs' = outreach_logs
                 /\ UNCHANGED <<pageVars, selections, submittingId, submits,
                                fetches>>
       /\ \A i \in DOMAIN submits :
             LET contactId == submits[i].contactId
                 selection == selectionOf(contactId)
             IN  /\ InsertDone(i) =>
                        /\ outreach_logs \subseteq outreach_logs'
                        /\ Cardinality(AddedLogs) =
                               (IF selection.emailed THEN 1 ELSE 0)
                                 + (IF selection.called THEN 1 ELSE 0)
                        /\ \A l \in AddedLogs : l.contact_id = contactId
                        /\ {l.contact_method : l \in AddedLogs} =
                               (IF selection.emailed THEN {"email"} ELSE {})
                                 \cup (IF selection.called THEN {"call"} ELSE {})
                 /\ InsertFailed(i) =>
                        /\ selections' = selections
                        /\ outreach_logs' = outreach_logs
                        /\ fetches' = fetches
                        /\ UNCHANGED pageVars
                        /\ submittingId' = <<>>
       /\ \A i \in DOMAIN fetches :
             (FetchDone(i) /\ fetches[i].after # <<>>) => submittingId' = <<>>
       /\ (submits' = <<>> /\ fetches' = <<>>) => submittingId' = <<>>
      ]_vars

C23_Witness ==
    /\ alertMessage = <<"Failed to log outreach">>
    /\ submittingId = <<>>
    /\ submits = <<>>
    /\ fetches = <<>>
    /\ \E c \in DOMAIN selections :
          /\ selections[c].called
          /\ selections[c].notes = "left voicemail"
    /\ \E c \in DOMAIN contacts \ DOMAIN selections :
          {l.contact_method : l \in {x \in outreach_logs :
                                       x.contact_id = c /\ x.id >= 1}}
              = {"email", "call"}

\* C25: while the insert of a handleSubmit call for a contact is pending,
\* the 'Mark Complete' button of that contact is disabled.
C25_ButtonDisabledWhileInserting ==
    \A i \in DOMAIN submits : markCompleteDisabled(submits[i].contactId)

\* C26: once every fetchData call and every handleSubmit call has completed,
\* the lists on the page are the ones computed from the tables as they are.
C26_ListsMatchTables ==
    (~loading /\ submits = <<>> /\ fetches = <<>>) =>
        /\ todayContacts = fetchedToday
        /\ nextDayContacts = fetchedNextDay

\* C27: when the fetchData awaited by a successful handleSubmit completes,
\* the contact, which was in todayContacts, has a cadence of at least 1 and
\* got a log dated today, is not in todayContacts any more.
C27_SubmittedLeavesToday ==
    [][\A i \in DOMAIN fetches :
          (/\ FetchDone(i)
           /\ fetches[i].after # <<>>
           /\ fetches[i].after[2] = today
           /\ contacts[fetches[i].after[1]].cadence_days >= 1
           /\ fetches[i].after[1] \in listedIds(todayContacts))
              => fetches[i].after[1] \notin listedIds(todayContacts')
      ]_vars

====
